---------------------------- MODULE Spec2Model ----------------------------
(***************************************************************************)
(* Model of scripts/replace-console-with-logger.py.                        *)
(*                                                                         *)
(* A Python str is a sequence of one-character strings, so that matching,  *)
(* splitting, stripping and joining are computed character by character.   *)
(* Two specifications:                                                     *)
(*   Spec     - one run of main() over a small file system;                *)
(*   SpecText - the text functions applied to bounded input texts.         *)
(***************************************************************************)
EXTENDS Naturals, Integers, Sequences, FiniteSets

VARIABLES
    cwd,                \* os.getcwd()
    fs,                 \* the file system: path -> content of each regular file
    fs0,                \* the file system when main() started
    pc,                 \* position of main(): "start", "loop", "done"
    files,              \* sorted(files) of main()
    idx,                \* position of the for loop in files (1-based)
    opened,             \* paths that open(file_path, 'w') succeeded on
    last,               \* the last process_file call: path, content before, return
    total_files,        \* main(): total_files
    total_replacements, \* main(): total_replacements
    modified_files,     \* main(): modified_files
    text,               \* SpecText: the current text
    file_path,          \* SpecText: the file path handed to add_logger_import
    trace,              \* SpecText: names of the functions applied so far
    arg,                \* SpecText: argument of the last call
    ret                 \* SpecText: value returned by the last call

vars == <<cwd, fs, fs0, pc, files, idx, opened, last, total_files,
          total_replacements, modified_files, text, file_path, trace, arg, ret>>

mainVars == <<cwd, fs, fs0, pc, files, idx, opened, last, total_files,
              total_replacements, modified_files>>

textVars == <<text, file_path, trace, arg, ret>>

---------------------------------------------------------------------------
(* Bounds *)

\* most lines of an input text of SpecText
MaxLines == 3

\* most regular files in the file system of Spec
MaxFiles == 2

---------------------------------------------------------------------------
(* Python str operations *)

\* s[i-1 : i-1+len(sub)] == sub   (i is 1-based)
MatchAt(s, sub, i) ==
    /\ i >= 1
    /\ i + Len(sub) - 1 <= Len(s)
    /\ \A k \in 1..Len(sub) : s[i + k - 1] = sub[k]

\* s.startswith(sub)
startswith(s, sub) == MatchAt(s, sub, 1)

\* s.endswith(sub)
endswith(s, sub) == MatchAt(s, sub, Len(s) - Len(sub) + 1)

\* sub in s
contains(sub, s) == \E i \in 1..(Len(s) + 1) : MatchAt(s, sub, i)

\* characters str.strip() removes
Whitespace == {" ", "\t", "\n", "\r"}

\* s.strip()
strip(s) ==
    LET keep == {i \in 1..Len(s) : s[i] \notin Whitespace}
    IN  IF keep = {} THEN <<>>
        ELSE SubSeq(s, CHOOSE i \in keep : \A j \in keep : i <= j,
                       CHOOSE i \in keep : \A j \in keep : i >= j)

RECURSIVE split_from(_, _, _, _, _)
split_from(s, sep, i, cur, acc) ==
    IF i > Len(s) THEN Append(acc, cur)
    ELSE IF s[i] = sep THEN split_from(s, sep, i + 1, <<>>, Append(acc, cur))
    ELSE split_from(s, sep, i + 1, Append(cur, s[i]), acc)

\* s.split(sep) for a one-character sep
split(s, sep) == split_from(s, sep, 1, <<>>, <<>>)

RECURSIVE join_from(_, _, _, _)
join_from(sep, parts, k, acc) ==
    IF k > Len(parts) THEN acc
    ELSE join_from(sep, parts, k + 1,
                   IF k = 1 THEN parts[k] ELSE acc \o sep \o parts[k])

\* sep.join(parts)
join(sep, parts) == join_from(sep, parts, 1, <<>>)

\* lines.insert(i, x), i a 0-based index within 0..len(lines)
insert(lines, i, x) ==
    SubSeq(lines, 1, i) \o <<x>> \o SubSeq(lines, i + 1, Len(lines))

RECURSIVE subn_from(_, _, _, _, _, _)
subn_from(pattern, repl, s, i, acc, n) ==
    IF i > Len(s) THEN <<acc, n>>
    ELSE IF MatchAt(s, pattern, i)
         THEN subn_from(pattern, repl, s, i + Len(pattern), acc \o repl, n + 1)
         ELSE subn_from(pattern, repl, s, i + 1, Append(acc, s[i]), n)

\* re.subn(pattern, repl, s) for a pattern that matches one literal string:
\* leftmost non-overlapping matches; returns <<new string, count>>
re_subn(pattern, repl, s) == subn_from(pattern, repl, s, 1, <<>>, 0)

\* re.search(pattern, s) is not None, for a pattern matching one literal
re_search(pattern, s) == contains(pattern, s)

---------------------------------------------------------------------------
(* Module constants *)

SKIP_FILES == { <<"s","r","c","/","u","t","i","l","s","/","l","o","g","g","e","r",".","t","s">>, <<"e","s","l","i","n","t",".","c","o","n","f","i","g",".","j","s">> }

\* <<literal the regular expression matches, replacement>>
CONSOLE_PATTERNS == <<
    << <<"c","o","n","s","o","l","e",".","e","r","r","o","r","(">>, <<"l","o","g","g","e","r",".","e","r","r","o","r","(">> >>,
    << <<"c","o","n","s","o","l","e",".","w","a","r","n","(">>,  <<"l","o","g","g","e","r",".","w","a","r","n","(">>  >>,
    << <<"c","o","n","s","o","l","e",".","l","o","g","(">>,   <<"l","o","g","g","e","r",".","l","o","g","(">>   >>,
    << <<"c","o","n","s","o","l","e",".","d","e","b","u","g","(">>, <<"l","o","g","g","e","r",".","d","e","b","u","g","(">> >>,
    << <<"c","o","n","s","o","l","e",".","i","n","f","o","(">>,  <<"l","o","g","g","e","r",".","i","n","f","o","(">>  >> >>

---------------------------------------------------------------------------
(* The text functions *)

should_skip_file_no_test_check(path) ==
    IF contains(<<"/","t","e","s","t","s","/">>, path)
    THEN TRUE
    ELSE IF contains(<<"/","s","c","r","i","p","t","s","/">>, path) \/ contains(<<"/",".","c","l","a","u","d","e","/">>, path)
    THEN TRUE
    ELSE \E skip \in SKIP_FILES : endswith(path, skip)

should_skip_file(path) ==
    IF contains(<<"/","t","e","s","t","s","/">>, path) \/ contains(<<".","t","e","s","t",".">>, path)
    THEN TRUE
    ELSE IF contains(<<"/","s","c","r","i","p","t","s","/">>, path) \/ contains(<<"/",".","c","l","a","u","d","e","/">>, path)
    THEN TRUE
    ELSE \E skip \in SKIP_FILES : endswith(path, skip)

needs_logger_import(content) ==
    IF \/ contains(<<"f","r","o","m"," ","'",".","/","u","t","i","l","s","/","l","o","g","g","e","r","'">>, content)
       \/ contains(<<"f","r","o","m"," ","\"","@","/","u","t","i","l","s","/","l","o","g","g","e","r","\"">>, content)
       \/ contains(<<"f","r","o","m"," ","'",".","/","l","o","g","g","e","r","'">>, content)
       \/ contains(<<"f","r","o","m"," ","'",".",".","/","l","o","g","g","e","r","'">>, content)
    THEN FALSE
    ELSE \E k \in 1..Len(CONSOLE_PATTERNS) :
            re_search(CONSOLE_PATTERNS[k][1], content)

\* the import_line add_logger_import chooses for file_path
import_line(path) ==
    IF contains(<<"s","r","c","/","u","t","i","l","s","/">>, path)
    THEN IF endswith(path, <<"s","r","c","/","u","t","i","l","s","/","b","r","e","a","d","c","r","u","m","b","s","/","d","e","b","u","g",".","t","s">>)
         THEN <<"i","m","p","o","r","t"," ","{"," ","c","r","e","a","t","e","N","a","m","e","s","p","a","c","e","d","L","o","g","g","e","r"," ","}"," ","f","r","o","m"," ","'",".",".","/","l","o","g","g","e","r","'">>
         ELSE <<"i","m","p","o","r","t"," ","{"," ","l","o","g","g","e","r"," ","}"," ","f","r","o","m"," ","'",".","/","l","o","g","g","e","r","'">>
    ELSE <<"i","m","p","o","r","t"," ","{"," ","l","o","g","g","e","r"," ","}"," ","f","r","o","m"," ","'","@","/","u","t","i","l","s","/","l","o","g","g","e","r","'">>

\* the test of the for loop of add_logger_import
is_import_line(line) ==
    startswith(strip(line), <<"i","m","p","o","r","t"," ">>) \/ startswith(strip(line), <<"}"," ","f","r","o","m">>)

\* last_import_idx after the loop: 0-based, -1 when no line qualifies
last_import_idx(lines) ==
    LET hits == {i \in 0..(Len(lines) - 1) : is_import_line(lines[i + 1])}
    IN  IF hits = {} THEN -1
        ELSE CHOOSE i \in hits : \A j \in hits : i >= j

add_logger_import_before_last(content, path) ==
    LET lines == split(content, "\n")
        last_idx == last_import_idx(lines)
    IN  IF last_idx = -1
        THEN import_line(path) \o <<"\n","\n">> \o content
        ELSE join(<<"\n">>, insert(lines, last_idx, import_line(path)))

add_logger_import(content, path) ==
    LET lines == split(content, "\n")
        last_idx == last_import_idx(lines)
    IN  IF last_idx = -1
        THEN import_line(path) \o <<"\n","\n">> \o content
        ELSE join(<<"\n">>, insert(lines, last_idx + 1, import_line(path)))

RECURSIVE replace_loop(_, _, _, _)
replace_loop(patterns, k, content, replacements) ==
    IF k > Len(patterns) THEN <<content, replacements>>
    ELSE LET r == re_subn(patterns[k][1], patterns[k][2], content)
         IN  replace_loop(patterns, k + 1, r[1], replacements + r[2])

replace_console_statements_skip_last(content) ==
    replace_loop(SubSeq(CONSOLE_PATTERNS, 1, Len(CONSOLE_PATTERNS) - 1),
                 1, content, 0)

\* returns <<content, replacements>>
replace_console_statements(content) ==
    replace_loop(CONSOLE_PATTERNS, 1, content, 0)

---------------------------------------------------------------------------
(* Paths and the file system *)

\* the ASCII characters of code points 32..95 and 97..126, in order
AsciiLow == <<" ","!","\"","#","$","%","&","'","(",")","*","+",",","-",".","/","0","1","2","3","4","5","6","7","8","9",":",";","<","=",">","?","@","A","B","C","D","E","F","G","H","I","J","K","L","M","N","O","P","Q","R","S","T","U","V","W","X","Y","Z","[","\\","]","^","_">>

AsciiHigh == <<"a","b","c","d","e","f","g","h","i","j","k","l","m","n","o","p","q","r","s","t","u","v","w","x","y","z","{","|","}","~">>

\* ord(c)
ord(c) ==
    IF \E i \in 1..Len(AsciiLow) : AsciiLow[i] = c
    THEN 31 + (CHOOSE i \in 1..Len(AsciiLow) : AsciiLow[i] = c)
    ELSE 96 + (CHOOSE i \in 1..Len(AsciiHigh) : AsciiHigh[i] = c)

\* a < b on str: lexicographic by code point
str_lt(a, b) ==
    \E k \in 1..(Len(b)) :
        /\ k <= Len(a) + 1
        /\ \A j \in 1..(k - 1) : a[j] = b[j]
        /\ (k = Len(a) + 1 \/ ord(a[k]) < ord(b[k]))

RECURSIVE sort_from(_, _)
sort_from(S, acc) ==
    IF S = {} THEN acc
    ELSE LET m == CHOOSE x \in S : \A y \in S \ {x} : str_lt(x, y)
         IN  sort_from(S \ {m}, Append(acc, m))

\* sorted(files), files holding distinct paths
sorted(S) == sort_from(S, <<>>)

\* os.path.join(a, b)
path_join(a, b) ==
    IF startswith(b, <<"/">>) THEN b
    ELSE IF a = <<>> \/ endswith(a, <<"/">>) THEN a \o b
    ELSE a \o <<"/">> \o b

\* index of the last "/" of path, 0 when there is none
last_slash(path) ==
    LET at == {i \in 1..Len(path) : path[i] = "/"}
    IN  IF at = {} THEN 0 ELSE CHOOSE i \in at : \A j \in at : i >= j

\* the directory os.walk reports a file in, and the file's name there
dirname(path) == SubSeq(path, 1, last_slash(path) - 1)

basename(path) == SubSeq(path, last_slash(path) + 1, Len(path))

\* os.walk(top): the <<root, filename>> pairs of the regular files below top
os_walk(top, fsys) ==
    { <<dirname(p), basename(p)>> :
        p \in {q \in DOMAIN fsys : startswith(q, path_join(top, <<>>))} }

\* os.path.relpath(path, start) for a path below start
relpath(path, start) ==
    IF startswith(path, path_join(start, <<>>))
    THEN SubSeq(path, Len(path_join(start, <<>>)) + 1, Len(path))
    ELSE path

find_typescript_files_with_dts(root_dir, fsys) ==
    LET src_dir == path_join(root_dir, <<"s","r","c">>)
    IN  { path_join(w[1], w[2]) :
            w \in { v \in os_walk(src_dir, fsys) :
                      endswith(v[2], <<".","t","s">>) \/ endswith(v[2], <<".","t","s","x">>) } }

\* the paths of the returned list (os.walk fixes no order; main sorts them)
find_typescript_files(root_dir, fsys) ==
    LET src_dir == path_join(root_dir, <<"s","r","c">>)
    IN  { path_join(w[1], w[2]) :
            w \in { v \in os_walk(src_dir, fsys) :
                      /\ endswith(v[2], <<".","t","s">>) \/ endswith(v[2], <<".","t","s","x">>)
                      /\ ~endswith(v[2], <<".","d",".","t","s">>) } }

\* process_file(path) on file system fsys; io is the I/O outcome: "ok",
\* "read" (open/read raises) or "write" (open(path, 'w') raises).
\* Returns the tuple returned, the file system left and whether the file
\* was opened for writing.
process_file(path, fsys, io) ==
    LET same == [modified |-> FALSE, replacements |-> 0, fs |-> fsys,
                 wrote |-> FALSE]
    IN  IF should_skip_file(path) THEN same
        ELSE IF io = "read" THEN same
        ELSE LET original_content == fsys[path]
                 r == replace_console_statements(original_content)
                 new_content ==
                     IF needs_logger_import(original_content)
                     THEN add_logger_import(r[1], path)
                     ELSE r[1]
             IN  IF r[2] = 0 THEN same
                 ELSE IF io = "write" THEN same
                 ELSE [modified |-> TRUE, replacements |-> r[2],
                       fs |-> [fsys EXCEPT ![path] = new_content],
                       wrote |-> TRUE]

---------------------------------------------------------------------------
(* Spec: one run of main() *)

\* working directories main() is started in
Cwds == { <<"/","p">>, <<"/","p","/","l","i","b">> }

\* paths a regular file may exist at
Universe == {
    <<"/","p","/","s","r","c","/","a",".","t","s">>,
    <<"/","p","/","s","r","c","/","b",".","t","s","x">>,
    <<"/","p","/","s","r","c","/","t",".","d",".","t","s">>,
    <<"/","p","/","s","r","c","/","d",".","t","s">>,
    <<"/","p","/","s","r","c","/","a",".","t","e","s","t",".","t","s">>,
    <<"/","p","/","s","r","c","/","c",".","j","s">>,
    <<"/","p","/","s","r","c","/","t","e","s","t","s","/","x",".","t","s">>,
    <<"/","p","/","s","r","c","/","s","c","r","i","p","t","s","/","s",".","t","s">>,
    <<"/","p","/","s","r","c","/",".","c","l","a","u","d","e","/","h",".","t","s">>,
    <<"/","p","/","s","r","c","/","u","t","i","l","s","/","l","o","g","g","e","r",".","t","s">>,
    <<"/","p","/","s","r","c","/","u","t","i","l","s","/","u",".","t","s">>,
    <<"/","p","/","s","r","c","/","u","t","i","l","s","/","b","r","e","a","d","c","r","u","m","b","s","/","d","e","b","u","g",".","t","s">>,
    <<"/","p","/","a",".","t","s">>,
    <<"/","p","/","s","r","c","x","/","a",".","t","s">>,
    <<"/","p","/","l","i","b","/","s","r","c","/","a",".","t","s">> }

\* contents a file may have
FileTexts == {
    <<"c","o","n","s","t"," ","x"," ","="," ","1","\n">>,
    <<"c","o","n","s","o","l","e",".","l","o","g","(","x",")","\n","c","o","n","s","o","l","e",".","w","a","r","n","(","x",")","\n">>,
    <<"i","m","p","o","r","t"," ","a"," ","f","r","o","m"," ","'","a","'","\n","\n","c","o","n","s","o","l","e",".","e","r","r","o","r","(","a",")","\n">> }

NoCall == [called |-> FALSE, path |-> <<>>, before |-> <<>>,
           modified |-> FALSE, replacements |-> 0, wrote |-> FALSE]

Init ==
    /\ cwd \in Cwds
    /\ \E S \in SUBSET Universe :
          /\ Cardinality(S) <= MaxFiles
          /\ fs \in [S -> FileTexts]
    /\ fs0 = fs
    /\ pc = "start"
    /\ files = <<>>
    /\ idx = 0
    /\ opened = {}
    /\ last = NoCall
    /\ total_files = 0
    /\ total_replacements = 0
    /\ modified_files = <<>>
    /\ text = <<>>
    /\ file_path = <<>>
    /\ trace = <<>>
    /\ arg = <<>>
    /\ ret = <<>>

\* main(): root_dir = os.getcwd(); files = find_typescript_files(root_dir);
\* the for loop starts over sorted(files)
Start ==
    /\ pc = "start"
    /\ files' = sorted(find_typescript_files(cwd, fs))
    /\ idx' = 1
    /\ pc' = "loop"
    /\ UNCHANGED <<cwd, fs, fs0, opened, last, total_files,
                   total_replacements, modified_files, textVars>>

\* one iteration of the for loop of main()
ProcessNext ==
    /\ pc = "loop"
    /\ idx <= Len(files)
    /\ \E io \in {"ok", "read", "write"} :
          LET path == files[idx]
          IN  \E res \in {process_file(path, fs, io)} :
              /\ fs' = res.fs
              /\ opened' = IF res.wrote THEN opened \cup {path} ELSE opened
              /\ last' = [called |-> TRUE, path |-> path, before |-> fs[path],
                          modified |-> res.modified,
                          replacements |-> res.replacements,
                          wrote |-> res.wrote]
              /\ total_files' =
                    IF res.modified THEN total_files + 1 ELSE total_files
              /\ total_replacements' =
                    IF res.modified THEN total_replacements + res.replacements
                    ELSE total_replacements
              /\ modified_files' =
                    IF res.modified
                    THEN Append(modified_files,
                                <<relpath(path, cwd), res.replacements>>)
                    ELSE modified_files
    /\ idx' = idx + 1
    /\ UNCHANGED <<cwd, fs0, pc, files, textVars>>

\* the loop is over: main() prints the summary and returns
Finish ==
    /\ pc = "loop"
    /\ idx > Len(files)
    /\ pc' = "done"
    /\ UNCHANGED <<cwd, fs, fs0, files, idx, opened, last, total_files,
                   total_replacements, modified_files, textVars>>

Next == Start \/ ProcessNext \/ Finish

Spec == Init /\ [][Next]_vars

---------------------------------------------------------------------------
(* SpecText: the text functions on bounded inputs *)

\* lines the input texts are made of
LineSamples == {
    <<>>,
    <<"i","m","p","o","r","t"," ","a">>,
    <<"}"," ","f","r","o","m"," ","'","b","'">>,
    <<"\t"," ","i","m","p","o","r","t"," ","c"," ","\r">>,
    <<"i","m","p","o","r","t","a","n","t","(">>,
    <<"c","o","n","s","o","l","e",".","w","a","r","n","(","c","o","n","s","o","l","e",".","e","r","r","o","r","(">>,
    <<" ","c","o","n","s","o","l","e",".","d","e","b","u","g","(","c","o","n","s","o","l","e",".","i","n","f","o","(","y",")",")">>,
    <<"c","o","n","s","o","l","e",".","c","o","n","s","o","l","e",".","l","o","g","(","c","o","n","s","o","l","e",".","l","o">> }

\* file paths add_logger_import is applied with
PathSamples == {
    <<"/","p","/","s","r","c","/","A","p","p",".","t","s","x">>,
    <<"/","p","/","s","r","c","/","u","t","i","l","s","/","u",".","t","s">>,
    <<"/","p","/","s","r","c","/","u","t","i","l","s","/","b","r","e","a","d","c","r","u","m","b","s","/","d","e","b","u","g",".","t","s">> }

\* the texts of 1..MaxLines sample lines joined by newlines
Texts ==
    { join(<<"\n">>, ls) : ls \in UNION { [1..n -> LineSamples] : n \in 1..MaxLines } }

InitText ==
    /\ text \in Texts
    /\ file_path \in PathSamples
    /\ trace = <<>>
    /\ arg = <<>>
    /\ ret = <<>>
    /\ cwd = <<>>
    /\ fs = [p \in {} |-> <<>>]
    /\ fs0 = fs
    /\ pc = "text"
    /\ files = <<>>
    /\ idx = 0
    /\ opened = {}
    /\ last = NoCall
    /\ total_files = 0
    /\ total_replacements = 0
    /\ modified_files = <<>>

\* new_content, replacements = replace_console_statements(text)
CallReplace ==
    /\ pc = "text"
    /\ trace = <<>>
    /\ arg' = text
    /\ ret' = replace_console_statements(text)
    /\ text' = ret'[1]
    /\ trace' = Append(trace, "replace")
    /\ UNCHANGED <<file_path, mainVars>>

\* text = add_logger_import(text, file_path)
CallAdd ==
    /\ pc = "text"
    /\ trace \in {<<>>, <<"replace">>}
    /\ arg' = text
    /\ ret' = add_logger_import(text, file_path)
    /\ text' = ret'
    /\ trace' = Append(trace, "add")
    /\ UNCHANGED <<file_path, mainVars>>

\* needs_logger_import(text)
CallNeeds ==
    /\ pc = "text"
    /\ trace = <<>> \/ (trace # <<>> /\ trace[Len(trace)] = "add")
    /\ arg' = text
    /\ ret' = needs_logger_import(text)
    /\ trace' = Append(trace, "needs")
    /\ UNCHANGED <<text, file_path, mainVars>>

NextText == CallReplace \/ CallAdd \/ CallNeeds

SpecText == InitText /\ [][NextText]_vars

---------------------------------------------------------------------------
(* Vocabulary of the properties *)

\* the five console methods
Methods == { <<"e","r","r","o","r">>, <<"w","a","r","n">>, <<"l","o","g">>, <<"d","e","b","u","g">>, <<"i","n","f","o">> }

ConsoleCall(m) == <<"c","o","n","s","o","l","e",".">> \o m \o <<"(">>

LoggerCall(m) == <<"l","o","g","g","e","r",".">> \o m \o <<"(">>

\* a console call starts at position i of s
ConsoleAt(s, i) == \E m \in Methods : MatchAt(s, ConsoleCall(m), i)

\* number of console calls in s
Occurrences(s) == Cardinality({i \in 1..Len(s) : ConsoleAt(s, i)})

RECURSIVE InPlace(_, _, _)
\* s read once from position i: each console call becomes the logger call of
\* the same method, every other character is copied
InPlace(s, i, acc) ==
    IF i > Len(s) THEN acc
    ELSE IF ConsoleAt(s, i)
         THEN LET m == CHOOSE x \in Methods : MatchAt(s, ConsoleCall(x), i)
              IN  InPlace(s, i + Len(ConsoleCall(m)), acc \o LoggerCall(m))
         ELSE InPlace(s, i + 1, Append(acc, s[i]))

\* the line of s that starts at position a ends at position LineEnd(s, a)
LineEnd(s, a) ==
    LET nl == {i \in a..Len(s) : s[i] = "\n"}
    IN  IF nl = {} THEN Len(s) ELSE (CHOOSE i \in nl : \A j \in nl : i <= j) - 1

\* positions of s at which a line starts
LineStarts(s) == {1} \cup {i + 1 : i \in {j \in 1..Len(s) : s[j] = "\n"}}

\* the stripped text of the line s[a..b] starts with 'import ' or '} from'
ImportLineAt(s, a, b) ==
    \E j \in a..b :
        /\ \A i \in a..(j - 1) : s[i] \in Whitespace
        /\ \/ /\ MatchAt(s, <<"i","m","p","o","r","t"," ">>, j)
              /\ \E i \in (j + 7)..b : s[i] \notin Whitespace
           \/ /\ MatchAt(s, <<"}"," ","f","r","o","m">>, j)
              /\ j + 5 <= b

\* starts of the lines of s that are import lines
ImportStarts(s) == {a \in LineStarts(s) : ImportLineAt(s, a, LineEnd(s, a))}

\* the import lines add_logger_import may insert
ImportLines == {
    <<"i","m","p","o","r","t"," ","{"," ","l","o","g","g","e","r"," ","}"," ","f","r","o","m"," ","'","@","/","u","t","i","l","s","/","l","o","g","g","e","r","'">>,
    <<"i","m","p","o","r","t"," ","{"," ","l","o","g","g","e","r"," ","}"," ","f","r","o","m"," ","'",".","/","l","o","g","g","e","r","'">>,
    <<"i","m","p","o","r","t"," ","{"," ","c","r","e","a","t","e","N","a","m","e","s","p","a","c","e","d","L","o","g","g","e","r"," ","}"," ","f","r","o","m"," ","'",".",".","/","l","o","g","g","e","r","'">> }

\* the last call of SpecText
LastCall == IF trace = <<>> THEN "none" ELSE trace[Len(trace)]

\* path p lies below directory <cwd>/src, by path components
UnderSrc(p) ==
    LET parts == split(p, "/")
        base == split(cwd, "/") \o << <<"s","r","c">> >>
    IN  Len(parts) > Len(base) /\ SubSeq(parts, 1, Len(base)) = base

\* the file name of p ends in .ts or .tsx but not in .d.ts
TsName(p) ==
    LET parts == split(p, "/")
        name == parts[Len(parts)]
    IN  /\ endswith(name, <<".","t","s">>) \/ endswith(name, <<".","t","s","x">>)
        /\ ~endswith(name, <<".","d",".","t","s">>)

\* a path the skip rule accepts
Skipped(p) ==
    \/ contains(<<"/","t","e","s","t","s","/">>, p)
    \/ contains(<<".","t","e","s","t",".">>, p)
    \/ contains(<<"/","s","c","r","i","p","t","s","/">>, p)
    \/ contains(<<"/",".","c","l","a","u","d","e","/">>, p)
    \/ endswith(p, <<"s","r","c","/","u","t","i","l","s","/","l","o","g","g","e","r",".","t","s">>)
    \/ endswith(p, <<"e","s","l","i","n","t",".","c","o","n","f","i","g",".","j","s">>)

---------------------------------------------------------------------------
(* Properties *)

\* C1: the text returned by replace_console_statements holds no console
\* call; it is the input with every console call replaced in place by the
\* logger call of the same method and every other character unchanged and
\* in the same order.
C1_ReplaceInPlace ==
    LastCall = "replace" =>
        /\ ret[1] = InPlace(arg, 1, <<>>)
        /\ Occurrences(ret[1]) = 0

\* a text with two different console calls in one line has been rewritten
C1_Witness ==
    /\ LastCall = "replace"
    /\ contains(<<"c","o","n","s","o","l","e",".","d","e","b","u","g","(","c","o","n","s","o","l","e",".","i","n","f","o","(">>, arg)
    /\ contains(<<"c","o","n","s","o","l","e",".","w","a","r","n","(">>, arg)
    /\ ret[1] # arg

\* C2: for a path the skip rule accepts and for a file without a console
\* call, process_file returns (False, 0), does not open the file for
\* writing and leaves its content as it was.
C2_NoWriteWhenSkippedOrClean ==
    (last.called /\ (Skipped(last.path) \/ Occurrences(last.before) = 0)) =>
        /\ ~last.modified
        /\ last.replacements = 0
        /\ ~last.wrote
        /\ fs[last.path] = last.before

\* process_file has been called on a skipped file that holds console calls
C2_Witness ==
    /\ last.called
    /\ Skipped(last.path)
    /\ Occurrences(last.before) > 0
    /\ \E p \in DOMAIN fs : fs[p] # fs0[p]

C4_OneImportLineInserted ==
    LastCall = "add" =>
        \E line \in ImportLines :
            IF ImportStarts(arg) = {}
            THEN ret = line \o <<"\n">> \o <<"\n">> \o arg
            ELSE LET a == CHOOSE x \in ImportStarts(arg) :
                              \A y \in ImportStarts(arg) : x >= y
                     e == LineEnd(arg, a)
                 IN  ret = SubSeq(arg, 1, e) \o <<"\n">> \o line
                             \o SubSeq(arg, e + 1, Len(arg))

\* the import was inserted between two import lines and a later line
C4_Witness ==
    /\ LastCall = "add"
    /\ Cardinality(ImportStarts(arg)) >= 2
    /\ \E a \in LineStarts(arg) :
          /\ a \notin ImportStarts(arg)
          /\ \A x \in ImportStarts(arg) : x < a
    /\ Len(ret) > Len(arg)

\* C5: needs_logger_import returns False on every content that
\* add_logger_import produced, for every file path, also when console
\* calls are present in it.
C5_AddedImportIsRecognised ==
    (Len(trace) >= 2 /\ trace[Len(trace) - 1] = "add" /\ LastCall = "needs")
        => ret = FALSE

=============================================================================
